---- MODULE Spec2Model ----
(***************************************************************************)
(* EcoFinds marketplace: the REST handlers of server/routes.ts over the    *)
(* DatabaseStorage accessors of server/storage.ts and the tables of        *)
(* shared/schema.ts.                                                       *)
(*                                                                         *)
(* decimal(p,2) columns (price, carbonSaved, totalAmount, totalCarbonSaved)*)
(* are integers counting hundredths: "10.00" is 1000.  parseFloat, the     *)
(* float sum and the decimal(…,2) store round-trip exactly on these.       *)
(* gen_random_uuid() keys are fresh integers: a row id is never reused.    *)
(***************************************************************************)
EXTENDS Integers, Sequences, FiniteSets, TLC

\* ---- bounds ------------------------------------------------------------
MaxProducts == 2
MaxCartRows == 2
MaxOrders == 1
MaxViews == 3
MaxIntents == 2
MaxReviews == 2

\* ---- input sets --------------------------------------------------------
Users == {"u1", "u2"}
Emails == {"a@eco", "b@eco"}
\* product payloads: price "10.00" or "5.00", carbonSaved "3.00" or "7.00",
\* available left to its default or sent as false
ProductBodies ==
  {[price |-> 1000, carbonSaved |-> 300],
   [price |-> 500, carbonSaved |-> 700],
   [price |-> 500, carbonSaved |-> 700, available |-> FALSE]}
\* payloads that carry more than the form sends: a views count, a sellerId
CatalogueBodies ==
  ProductBodies \cup
  {[price |-> 1000, carbonSaved |-> 300, views |-> 7],
   [price |-> 1000, carbonSaved |-> 300, sellerId |-> "u1"]}
\* payloads of the listing: titles "Bag" and "Cap" spelled by letter, a
\* category, one product sent with available = false, one featured
ListingBodies ==
  {[title |-> <<"B", "a", "g">>, category |-> "clothing",
    price |-> 1000, carbonSaved |-> 300],
   [title |-> <<"C", "a", "p">>, category |-> "clothing",
    price |-> 500, carbonSaved |-> 700, available |-> FALSE],
   [title |-> <<"C", "a", "p">>, category |-> "electronics",
    price |-> 500, carbonSaved |-> 700, featured |-> TRUE]}
\* query strings of GET /api/products: "" and <<>> stand for a parameter
\* that is not sent
ListingParams ==
  [category : {"", "clothing"}, search : {<<>>, <<"b">>},
   featured : BOOLEAN, limit : {1, 2}, offset : {0, 1, 2}]
\* a later edit of the price, to "15.00"
ProductUpdates == {[price |-> 1500]}
Sellers == {"u2"}
Buyers == {"u1"}
Quantities == {1, 2}
\* payloads the schema does not refuse (price "0.00", price "-5.00" with
\* carbonSaved "-3.00") and one it does (no price)
LooseBodies ==
  {[price |-> 0, carbonSaved |-> 300],
   [price |-> -500, carbonSaved |-> -300],
   [carbonSaved |-> 300]}
LooseQuantities == {0, 1}
\* amount -5.00, 0, 10.00
Amounts == {-500, 0, 1000}
\* paymentIntentId values a create-order body can carry: the n-th intent made
\* (whether or not it was made yet)
PaymentIntentIds == 1..MaxIntents
PayBodies == {[price |-> 1000, carbonSaved |-> 300]}
\* one product on sale and one sent with available = false
SharedBodies ==
  {[price |-> 1000, carbonSaved |-> 300],
   [price |-> 500, carbonSaved |-> 700, available |-> FALSE]}
\* review payloads: rating 0, 3 or 6, and one with no rating
ReviewBodies ==
  {[rating |-> 0], [rating |-> 3], [rating |-> 6], [comment |-> "ok"]}
Slots == {1}
\* status values of order_status; the ones a later update sets
OrderStatuses == {"pending", "confirmed", "shipped", "delivered", "cancelled"}
StatusUpdates == {"shipped", "cancelled"}
\* two requests in flight at once (a double-click)
RaceSlots == {1, 2}
\* the paymentIntentId a checkout page sends when no intent was ever made
NoIntentIds == {1}
Fetchers == {1, 2}

VARIABLES
  users,          \* users table: id -> row
  products,       \* products table: sequence of rows, id = index
  cartItems,      \* cart_items table: id -> row
  nextCartId,     \* next fresh cart_items id
  orders,         \* orders table: sequence of rows, id = index
  orderItems,     \* order_items table: sequence of rows
  paymentIntents, \* intents created at the payment processor (amount in cents)
  reviews,        \* reviews table: sequence of rows
  stripe,         \* whether STRIPE_SECRET_KEY was set at start-up
  req,            \* create-order requests: slot -> position and locals
  fetch,          \* GET /api/products/:id requests: slot -> position and locals
  resp            \* last response of a catalogue or payment route

vars == <<users, products, cartItems, nextCartId, orders, orderItems,
          paymentIntents, reviews, stripe, req, fetch, resp>>

tables == <<users, products, cartItems, nextCartId, orders, orderItems,
            reviews>>

\* ---- helpers -----------------------------------------------------------
RECURSIVE SetToSortedSeq(_)
SetToSortedSeq(S) ==
  IF S = {} THEN <<>>
  ELSE LET m == CHOOSE x \in S : \A y \in S : x <= y
       IN <<m>> \o SetToSortedSeq(S \ {m})

\* Array.prototype.includes
Includes(arr, x) == \E i \in DOMAIN arr : arr[i] = x

ProductIds == 1..Len(products)

NoResp == [route |-> "none", status |-> 0]

IdleReq == [pc |-> "idle", user |-> "u1", ids |-> <<>>, paymentIntentId |-> 0,
            items |-> <<>>, totalAmount |-> 0, totalCarbonSaved |-> 0,
            orderId |-> 0, idx |-> 0]

IdleFetch == [pc |-> "idle", id |-> 0]

\* the tables after start-up and the users' first login
InitTables ==
  /\ users = [u \in Users |-> [email |-> "a@eco", totalCarbonSaved |-> 0]]
  /\ products = <<>>
  /\ cartItems = <<>>
  /\ nextCartId = 1
  /\ orders = <<>>
  /\ orderItems = <<>>
  /\ paymentIntents = <<>>
  /\ reviews = <<>>
  /\ fetch = [f \in Fetchers |-> IdleFetch]
  /\ resp = NoResp

\* one create-order request at a time
InitStore == InitTables /\ req = [r \in Slots |-> IdleReq]

\* STRIPE_SECRET_KEY set
Init == stripe = TRUE /\ InitStore

\* STRIPE_SECRET_KEY set or not
InitPay == stripe \in BOOLEAN /\ InitStore

\* room for two create-order requests in flight
InitRace ==
  /\ stripe = TRUE
  /\ InitTables
  /\ req = [r \in RaceSlots |-> IdleReq]

\* ---- storage accessors (server/storage.ts) -------------------------------

\* the listing without its userId condition
GetCartItemsOfAnyone(userId) ==
  {c \in DOMAIN cartItems :
     /\ cartItems[c].productId \in ProductIds
     /\ products[cartItems[c].productId].available = TRUE}

\* DatabaseStorage.getCartItems: the caller's rows joined with their product,
\* only where the product is available
GetCartItems(userId) ==
  {c \in DOMAIN cartItems :
     /\ cartItems[c].userId = userId
     /\ cartItems[c].productId \in ProductIds
     /\ products[cartItems[c].productId].available = TRUE}

\* a listing that leaves out the buyer filter
GetOrdersOfAnyone(userId) ==
  [o \in DOMAIN orders |->
     {i \in DOMAIN orderItems :
        /\ orderItems[i].orderId = o
        /\ orderItems[i].productId \in ProductIds
        /\ orderItems[i].sellerId \in DOMAIN users}]

\* DatabaseStorage.getOrders: the buyer's orders, each with the order_items
\* rows joined to it whose product and seller rows exist
GetOrders(userId) ==
  [o \in {x \in DOMAIN orders : orders[x].buyerId = userId} |->
     {i \in DOMAIN orderItems :
        /\ orderItems[i].orderId = o
        /\ orderItems[i].productId \in ProductIds
        /\ orderItems[i].sellerId \in DOMAIN users}]

\* lower case of the letters the titles use
Lower(ch) ==
  CASE ch = "B" -> "b" [] ch = "C" -> "c" [] OTHER -> ch

\* ilike(products.title, `%${search}%`): search occurs in title, case ignored
ILike(title, search) ==
  \E i \in 0..(Len(title) - Len(search)) :
     \A j \in 1..Len(search) : Lower(title[i + j]) = Lower(search[j])

\* the where clause of getProducts: each query.where(...) replaces the
\* condition set before it, so the last one applied is the condition
ProductsWhere(params, product) ==
  IF params.featured THEN product.featured = TRUE
  ELSE IF params.search # <<>> THEN ILike(product.title, params.search)
  ELSE IF params.category # "" THEN product.category = params.category
  ELSE product.available = TRUE

\* ids of the reviews of one product, oldest first
ReviewIdsOf(id) ==
  SetToSortedSeq({k \in DOMAIN reviews : reviews[k].productId = id})

\* products LEFT JOIN reviews: one row per review, or one row with no review
\* (review 0) for a product that has none
JoinedRowsOf(id) ==
  IF ReviewIdsOf(id) = <<>>
  THEN <<[product |-> id, review |-> 0]>>
  ELSE [i \in 1..Len(ReviewIdsOf(id)) |->
          [product |-> id, review |-> ReviewIdsOf(id)[i]]]

\* the joined rows that pass the where clause, ORDER BY created_at DESC:
\* from product id downwards
RECURSIVE JoinedRowsFrom(_, _)
JoinedRowsFrom(id, params) ==
  IF id = 0 THEN <<>>
  ELSE (IF ProductsWhere(params, products[id])
        THEN JoinedRowsOf(id) ELSE <<>>)
       \o JoinedRowsFrom(id - 1, params)

\* .limit(limit).offset(offset) over the joined rows
LimitOffset(rows, limit, offset) ==
  SubSeq(rows, offset + 1,
         IF offset + limit < Len(rows) THEN offset + limit ELSE Len(rows))

\* result.forEach: rows grouped by product in a Map, in order of first
\* appearance, the reviews of the rows pushed onto the product's list
RECURSIVE GroupByProduct(_, _)
GroupByProduct(rows, acc) ==
  IF rows = <<>> THEN acc
  ELSE LET row == Head(rows)
           pushed == IF row.review = 0 THEN <<>> ELSE <<row.review>>
       IN IF \E k \in DOMAIN acc : acc[k].id = row.product
          THEN GroupByProduct(Tail(rows),
                 [k \in DOMAIN acc |->
                    IF acc[k].id = row.product
                    THEN [acc[k] EXCEPT !.reviews = @ \o pushed]
                    ELSE acc[k]])
          ELSE GroupByProduct(Tail(rows),
                 Append(acc, [id |-> row.product, reviews |-> pushed]))

\* DatabaseStorage.getProducts
GetProducts(params) ==
  GroupByProduct(
    LimitOffset(JoinedRowsFrom(Len(products), params),
                params.limit, params.offset),
    <<>>)

\* DatabaseStorage.upsertUser: insert, or on conflict set the given fields
UpsertUserRow(tbl, id, userData) ==
  IF id \in DOMAIN tbl
  THEN [tbl EXCEPT ![id] = [f \in DOMAIN tbl[id] |->
          IF f \in DOMAIN userData THEN userData[f] ELSE tbl[id][f]]]
  ELSE tbl @@ (id :> [email |-> userData.email, totalCarbonSaved |-> 0])

\* an update that stores the order's total instead of adding it
UpdateUserCarbonSavedRowSet(tbl, id, carbonSaved) ==
  [tbl EXCEPT ![id].totalCarbonSaved = carbonSaved]

\* DatabaseStorage.updateUserCarbonSaved: total_carbon_saved + carbonSaved
UpdateUserCarbonSavedRow(tbl, id, carbonSaved) ==
  [tbl EXCEPT ![id].totalCarbonSaved = @ + carbonSaved]

\* DatabaseStorage.createProduct with the column defaults of the schema:
\* available defaults to true, featured to false, views to 0
NewProductRow(productData) ==
  productData @@ [available |-> TRUE, featured |-> FALSE, views |-> 0]

\* DatabaseStorage.updateProduct: set the given columns of one row
UpdateProductRow(row, updates) ==
  [f \in DOMAIN row |-> IF f \in DOMAIN updates THEN updates[f] ELSE row[f]]

\* an update that matches no row
IncrementProductViewsRowNone(row) == row

\* DatabaseStorage.incrementProductViews: views + 1
IncrementProductViewsRow(row) == [row EXCEPT !.views = @ + 1]

\* a delete that matches no row
RemoveFromCartRowsNone(tbl, id) == tbl

\* DatabaseStorage.removeFromCart: delete by id, no row is not an error
RemoveFromCartRows(tbl, id) == [c \in DOMAIN tbl \ {id} |-> tbl[c]]

\* insertProductSchema.parse: price and carbonSaved are required strings
\* (decimal columns are z.string()); nothing constrains their sign
InsertProductSchemaOk(body) == {"price", "carbonSaved"} \subseteq DOMAIN body

\* the columns insertProductSchema keeps: views (like id and the timestamps)
\* is omitted
InsertProductColumns ==
  {"sellerId", "title", "category", "price", "carbonSaved", "available",
   "featured"}

\* a schema that lets every key of the payload through
InsertProductSchemaParseAll(data) == data

\* insertProductSchema.parse: the result holds the schema's keys only
InsertProductSchemaParse(data) ==
  [f \in DOMAIN data \cap InsertProductColumns |-> data[f]]

\* { sellerId: userId, ...req.body }: the body's sellerId wins
ProductPayloadBodyLast(userId, body) == body @@ [sellerId |-> userId]

\* { ...req.body, sellerId: userId }: the session's user id wins
ProductPayload(userId, body) == [sellerId |-> userId] @@ body

\* insertReviewSchema.parse: rating is a required integer (the handler
\* supplies productId and buyerId); nothing constrains its range
InsertReviewSchemaOk(body) == "rating" \in DOMAIN body

\* ---- create-order locals -------------------------------------------------

\* validCartItems: the listing filtered by cartItemIds.includes(item.id)
ValidCartItems(userId, cartItemIds) ==
  SetToSortedSeq({c \in GetCartItems(userId) : Includes(cartItemIds, c)})

\* orderItemsData: one snapshot per valid cart row
OrderItemsData(valid) ==
  [i \in 1..Len(valid) |->
     LET item == cartItems[valid[i]]
         product == products[item.productId]
     IN [cartItemId |-> valid[i],
         productId |-> item.productId,
         sellerId |-> product.sellerId,
         price |-> product.price,
         quantity |-> item.quantity,
         carbonSaved |-> product.carbonSaved]]

\* the line total taken as the unit price, quantity forgotten
RECURSIVE TotalAmountOfUnitPrices(_)
TotalAmountOfUnitPrices(items) ==
  IF items = <<>> THEN 0
  ELSE Head(items).price + TotalAmountOfUnitPrices(Tail(items))

\* totalAmount += parseFloat(price) * quantity
RECURSIVE TotalAmountOf(_)
TotalAmountOf(items) ==
  IF items = <<>> THEN 0
  ELSE Head(items).price * Head(items).quantity + TotalAmountOf(Tail(items))

\* carbon counted once per line, quantity forgotten
RECURSIVE TotalCarbonSavedOfLines(_)
TotalCarbonSavedOfLines(items) ==
  IF items = <<>> THEN 0
  ELSE Head(items).carbonSaved + TotalCarbonSavedOfLines(Tail(items))

\* totalCarbonSaved += parseFloat(carbonSaved) * quantity
RECURSIVE TotalCarbonSavedOf(_)
TotalCarbonSavedOf(items) ==
  IF items = <<>> THEN 0
  ELSE Head(items).carbonSaved * Head(items).quantity
         + TotalCarbonSavedOf(Tail(items))

\* ---- single-statement handlers (server/routes.ts) ------------------------

\* POST /api/products
CreateProduct(userId, body) ==
  /\ Len(products) < MaxProducts
  /\ IF InsertProductSchemaOk(body)
     THEN /\ products' = Append(products,
                NewProductRow(InsertProductSchemaParse(
                                ProductPayload(userId, body))))
          /\ resp' = [route |-> "POST /api/products", status |-> 201]
     ELSE /\ products' = products
          /\ resp' = [route |-> "POST /api/products", status |-> 400]
  /\ UNCHANGED <<users, cartItems, nextCartId, orders, orderItems,
                 paymentIntents, reviews, stripe, req, fetch>>

\* an edit that also rewrites the order lines of the product
UpdateProductAndOrderLines(id, updates) ==
  /\ id \in ProductIds
  /\ products' = [products EXCEPT ![id] = UpdateProductRow(@, updates)]
  /\ orderItems' = [i \in DOMAIN orderItems |->
        IF orderItems[i].productId = id
        THEN UpdateProductRow(orderItems[i], updates) ELSE orderItems[i]]
  /\ UNCHANGED <<users, cartItems, nextCartId, orders,
                 paymentIntents, reviews, stripe, req, fetch, resp>>

\* storage.updateProduct(id, updates)
UpdateProduct(id, updates) ==
  /\ id \in ProductIds
  /\ products' = [products EXCEPT ![id] = UpdateProductRow(@, updates)]
  /\ UNCHANGED <<users, cartItems, nextCartId, orders, orderItems,
                 paymentIntents, reviews, stripe, req, fetch, resp>>

\* POST /api/products/:id/reviews: 400 on a schema failure; an unknown
\* product violates the foreign key, the catch answers 500 and no row is stored
CreateReview(userId, id, body) ==
  /\ Len(reviews) < MaxReviews
  /\ IF ~InsertReviewSchemaOk(body)
     THEN /\ resp' = [route |-> "POST /api/products/:id/reviews",
                      status |-> 400]
          /\ UNCHANGED reviews
     ELSE IF id \notin ProductIds
     THEN /\ resp' = [route |-> "POST /api/products/:id/reviews",
                      status |-> 500]
          /\ UNCHANGED reviews
     ELSE /\ reviews' = Append(reviews,
                [productId |-> id, buyerId |-> userId,
                 rating |-> body.rating])
          /\ resp' = [route |-> "POST /api/products/:id/reviews",
                      status |-> 201]
  /\ UNCHANGED <<users, products, cartItems, nextCartId, orders, orderItems,
                 paymentIntents, stripe, req, fetch>>

\* GET /api/products: the listing for the query's filters and page
ListProducts(params) ==
  /\ resp' = [route |-> "GET /api/products", status |-> 200,
              query |-> params, body |-> GetProducts(params)]
  /\ UNCHANGED <<users, products, cartItems, nextCartId, orders, orderItems,
                 paymentIntents, reviews, stripe, req, fetch>>

\* storage.updateOrderStatus(id, status): sets status (and updatedAt) of the
\* row with that id, if there is one
UpdateOrderStatus(id, status) ==
  /\ status \in OrderStatuses
  /\ orders' = IF id \in DOMAIN orders
               THEN [orders EXCEPT ![id].status = status]
               ELSE orders
  /\ UNCHANGED <<users, products, cartItems, nextCartId, orderItems,
                 paymentIntents, reviews, stripe, req, fetch, resp>>

\* storage.upsertUser(userData), called on login
UpsertUser(id, userData) ==
  /\ users' = UpsertUserRow(users, id, userData)
  /\ UNCHANGED <<products, cartItems, nextCartId, orders, orderItems,
                 paymentIntents, reviews, stripe, req, fetch, resp>>

\* an insert that adds the quantity to a row the caller already has for the
\* product
AddToCartMerging(userId, productId, quantity) ==
  /\ nextCartId <= MaxCartRows
  /\ LET same == {c \in DOMAIN cartItems :
                    /\ cartItems[c].userId = userId
                    /\ cartItems[c].productId = productId}
     IN IF productId \notin ProductIds
        THEN UNCHANGED <<cartItems, nextCartId>>
        ELSE IF same # {}
        THEN /\ cartItems' = [cartItems EXCEPT
                   ![CHOOSE c \in same : TRUE].quantity = @ + quantity]
             /\ nextCartId' = nextCartId
        ELSE /\ cartItems' = cartItems @@ (nextCartId :>
                   [userId |-> userId, productId |-> productId,
                    quantity |-> quantity])
             /\ nextCartId' = nextCartId + 1
  /\ UNCHANGED <<users, products, orders, orderItems,
                 paymentIntents, reviews, stripe, req, fetch, resp>>

\* POST /api/cart: quantity is stored as sent; an unknown product violates
\* the foreign key, the catch answers 500 and no row is stored
AddToCart(userId, productId, quantity) ==
  /\ nextCartId <= MaxCartRows
  /\ IF productId \in ProductIds
     THEN /\ cartItems' = cartItems @@ (nextCartId :>
                [userId |-> userId, productId |-> productId,
                 quantity |-> quantity])
          /\ nextCartId' = nextCartId + 1
     ELSE UNCHANGED <<cartItems, nextCartId>>
  /\ UNCHANGED <<users, products, orders, orderItems,
                 paymentIntents, reviews, stripe, req, fetch, resp>>

\* PUT /api/cart/:id: the row is selected by id alone
UpdateCartItem(userId, id, quantity) ==
  /\ id \in 1..(nextCartId - 1)
  /\ cartItems' = IF id \in DOMAIN cartItems
                  THEN [cartItems EXCEPT ![id].quantity = quantity]
                  ELSE cartItems
  /\ UNCHANGED <<users, products, nextCartId, orders, orderItems,
                 paymentIntents, reviews, stripe, req, fetch, resp>>

\* DELETE /api/cart/:id
RemoveFromCart(userId, id) ==
  /\ id \in 1..(nextCartId - 1)
  /\ cartItems' = RemoveFromCartRows(cartItems, id)
  /\ UNCHANGED <<users, products, nextCartId, orders, orderItems,
                 paymentIntents, reviews, stripe, req, fetch, resp>>

\* the handler without its amount check
CreatePaymentIntentUnchecked(userId, amount) ==
  /\ Len(paymentIntents) < MaxIntents
  /\ IF ~stripe
     THEN /\ resp' = [route |-> "POST /api/create-payment-intent",
                      status |-> 503]
          /\ UNCHANGED paymentIntents
     ELSE /\ paymentIntents' = Append(paymentIntents,
                [amount |-> amount, userId |-> userId])
          /\ resp' = [route |-> "POST /api/create-payment-intent",
                      status |-> 200]
  /\ UNCHANGED <<users, products, cartItems, nextCartId, orders, orderItems,
                 reviews, stripe, req, fetch>>

\* POST /api/create-payment-intent; amount counts hundredths, so
\* Math.round(amount * 100) is the number itself
CreatePaymentIntent(userId, amount) ==
  /\ Len(paymentIntents) < MaxIntents
  /\ IF ~stripe
     THEN /\ resp' = [route |-> "POST /api/create-payment-intent",
                      status |-> 503]
          /\ UNCHANGED paymentIntents
     ELSE IF amount = 0 \/ amount <= 0
     THEN /\ resp' = [route |-> "POST /api/create-payment-intent",
                      status |-> 400]
          /\ UNCHANGED paymentIntents
     ELSE /\ paymentIntents' = Append(paymentIntents,
                [amount |-> amount, userId |-> userId])
          /\ resp' = [route |-> "POST /api/create-payment-intent",
                      status |-> 200]
  /\ UNCHANGED <<users, products, cartItems, nextCartId, orders, orderItems,
                 reviews, stripe, req, fetch>>

\* ---- GET /api/products/:id: getProduct, then incrementProductViews -------

FetchesOf(id) == {f \in DOMAIN fetch : fetch[f].pc = "incrementProductViews"
                                        /\ fetch[f].id = id}

\* await storage.getProduct(id); 404 when no row
GetProductStart(f, id) ==
  /\ fetch[f].pc = "idle"
  /\ IF id \in ProductIds
     THEN /\ products[id].views + Cardinality(FetchesOf(id)) < MaxViews
          /\ fetch' = [fetch EXCEPT ![f] =
                         [pc |-> "incrementProductViews", id |-> id]]
          /\ UNCHANGED resp
     ELSE /\ resp' = [route |-> "GET /api/products/:id", status |-> 404]
          /\ UNCHANGED fetch
  /\ UNCHANGED <<users, products, cartItems, nextCartId, orders, orderItems,
                 paymentIntents, reviews, stripe, req>>

\* the increment without its where clause: every product counts the view
GetProductIncrementAll(f) ==
  /\ fetch[f].pc = "incrementProductViews"
  /\ products' = [id \in ProductIds |-> IncrementProductViewsRow(products[id])]
  /\ fetch' = [fetch EXCEPT ![f] = IdleFetch]
  /\ resp' = [route |-> "GET /api/products/:id", status |-> 200]
  /\ UNCHANGED <<users, cartItems, nextCartId, orders, orderItems,
                 paymentIntents, reviews, stripe, req>>

\* await storage.incrementProductViews(id); res.json(product)
GetProductIncrement(f) ==
  /\ fetch[f].pc = "incrementProductViews"
  /\ products' = [products EXCEPT ![fetch[f].id] = IncrementProductViewsRow(@)]
  /\ fetch' = [fetch EXCEPT ![f] = IdleFetch]
  /\ resp' = [route |-> "GET /api/products/:id", status |-> 200]
  /\ UNCHANGED <<users, cartItems, nextCartId, orders, orderItems,
                 paymentIntents, reviews, stripe, req>>

\* ---- POST /api/create-order: one step per awaited storage call -----------

Finished == {"idle", "r201", "r400", "r500"}

\* requests that have not yet inserted their order row
BeforeOrderRow == {r \in DOMAIN req : req[r].pc = "createOrder"}

\* orders the model lets the requests place: MaxOrders for each request
\* that can be in flight
OrderCap == MaxOrders * Cardinality(DOMAIN req)

\* a handler that answers 400 unless the named intent exists and was made for
\* the total it computes
CreateOrderStartChecked(r, userId, cartItemIds, paymentIntentId) ==
  /\ req[r].pc \in Finished
  /\ LET valid == ValidCartItems(userId, cartItemIds)
         items == OrderItemsData(valid)
         paid == /\ paymentIntentId \in DOMAIN paymentIntents
                 /\ paymentIntents[paymentIntentId].amount
                      = TotalAmountOf(items)
     IN /\ (Len(valid) > 0 /\ paid) =>
             Len(orders) + Cardinality(BeforeOrderRow) < OrderCap
        /\ req' = [req EXCEPT ![r] =
             IF Len(valid) = 0 \/ ~paid
             THEN [IdleReq EXCEPT !.pc = "r400", !.user = userId,
                                  !.ids = cartItemIds,
                                  !.paymentIntentId = paymentIntentId]
             ELSE [pc |-> "createOrder", user |-> userId,
                   ids |-> cartItemIds, paymentIntentId |-> paymentIntentId,
                   items |-> items,
                   totalAmount |-> TotalAmountOf(items),
                   totalCarbonSaved |-> TotalCarbonSavedOf(items),
                   orderId |-> 0, idx |-> 0]]
  /\ UNCHANGED <<users, products, cartItems, nextCartId, orders, orderItems,
                 paymentIntents, reviews, stripe, fetch, resp>>

\* await storage.getCartItems(userId); filter; 400 when nothing is left;
\* otherwise the totals and orderItemsData are computed from what was read
CreateOrderStart(r, userId, cartItemIds, paymentIntentId) ==
  /\ req[r].pc \in Finished
  /\ LET valid == ValidCartItems(userId, cartItemIds)
         items == OrderItemsData(valid)
     IN /\ Len(valid) > 0 =>
             Len(orders) + Cardinality(BeforeOrderRow) < OrderCap
        /\ req' = [req EXCEPT ![r] =
             IF Len(valid) = 0
             THEN [IdleReq EXCEPT !.pc = "r400", !.user = userId,
                                  !.ids = cartItemIds,
                                  !.paymentIntentId = paymentIntentId]
             ELSE [pc |-> "createOrder", user |-> userId,
                   ids |-> cartItemIds, paymentIntentId |-> paymentIntentId,
                   items |-> items,
                   totalAmount |-> TotalAmountOf(items),
                   totalCarbonSaved |-> TotalCarbonSavedOf(items),
                   orderId |-> 0, idx |-> 0]]
  /\ UNCHANGED <<users, products, cartItems, nextCartId, orders, orderItems,
                 paymentIntents, reviews, stripe, fetch, resp>>

\* an insert that leaves status to the column default
CreateOrderRowPending(r) ==
  /\ req[r].pc = "createOrder"
  /\ orders' = Append(orders,
        [buyerId |-> req[r].user,
         totalAmount |-> req[r].totalAmount,
         paymentIntentId |-> req[r].paymentIntentId,
         totalCarbonSaved |-> req[r].totalCarbonSaved,
         status |-> "pending"])
  /\ req' = [req EXCEPT ![r].pc = "createOrderItems",
                        ![r].orderId = Len(orders) + 1]
  /\ UNCHANGED <<users, products, cartItems, nextCartId, orderItems,
                 paymentIntents, reviews, stripe, fetch, resp>>

\* await storage.createOrder({... status: 'confirmed'})
CreateOrderRow(r) ==
  /\ req[r].pc = "createOrder"
  /\ orders' = Append(orders,
        [buyerId |-> req[r].user,
         totalAmount |-> req[r].totalAmount,
         paymentIntentId |-> req[r].paymentIntentId,
         totalCarbonSaved |-> req[r].totalCarbonSaved,
         status |-> "confirmed"])
  /\ req' = [req EXCEPT ![r].pc = "createOrderItems",
                        ![r].orderId = Len(orders) + 1]
  /\ UNCHANGED <<users, products, cartItems, nextCartId, orderItems,
                 paymentIntents, reviews, stripe, fetch, resp>>

\* await storage.createOrderItems(orderItemsData.map(... orderId))
CreateOrderItems(r) ==
  /\ req[r].pc = "createOrderItems"
  /\ orderItems' = orderItems \o
        [i \in 1..Len(req[r].items) |->
           [orderId |-> req[r].orderId,
            productId |-> req[r].items[i].productId,
            sellerId |-> req[r].items[i].sellerId,
            price |-> req[r].items[i].price,
            quantity |-> req[r].items[i].quantity,
            carbonSaved |-> req[r].items[i].carbonSaved]]
  /\ req' = [req EXCEPT ![r].pc = "updateUserCarbonSaved"]
  /\ UNCHANGED <<users, products, cartItems, nextCartId, orders,
                 paymentIntents, reviews, stripe, fetch, resp>>

\* await storage.updateUserCarbonSaved(userId, totalCarbonSaved)
CreateOrderCarbon(r) ==
  /\ req[r].pc = "updateUserCarbonSaved"
  /\ users' = UpdateUserCarbonSavedRow(users, req[r].user,
                                       req[r].totalCarbonSaved)
  /\ req' = [req EXCEPT ![r].pc = "removeFromCart", ![r].idx = 1]
  /\ UNCHANGED <<products, cartItems, nextCartId, orders, orderItems,
                 paymentIntents, reviews, stripe, fetch, resp>>

\* a clearing step that empties the caller's cart (storage.clearCart)
CreateOrderRemoveAll(r) ==
  /\ req[r].pc = "removeFromCart"
  /\ cartItems' = [c \in {x \in DOMAIN cartItems :
                            cartItems[x].userId # req[r].user} |->
                     cartItems[c]]
  /\ req' = [req EXCEPT ![r].pc = "r201"]
  /\ UNCHANGED <<users, products, nextCartId, orders, orderItems,
                 paymentIntents, reviews, stripe, fetch, resp>>

\* a clearing loop that throws when the row is already gone
CreateOrderRemoveOrThrow(r) ==
  /\ req[r].pc = "removeFromCart"
  /\ IF req[r].ids[req[r].idx] \in DOMAIN cartItems
     THEN /\ cartItems' = RemoveFromCartRows(cartItems, req[r].ids[req[r].idx])
          /\ req' = IF req[r].idx = Len(req[r].ids)
                    THEN [req EXCEPT ![r].pc = "r201"]
                    ELSE [req EXCEPT ![r].idx = @ + 1]
     ELSE /\ cartItems' = cartItems
          /\ req' = [req EXCEPT ![r].pc = "r500"]
  /\ UNCHANGED <<users, products, nextCartId, orders, orderItems,
                 paymentIntents, reviews, stripe, fetch, resp>>

\* a handler that answers 201 without clearing the cart
CreateOrderRemoveSkipped(r) ==
  /\ req[r].pc = "removeFromCart"
  /\ req' = [req EXCEPT ![r].pc = "r201"]
  /\ UNCHANGED <<users, products, cartItems, nextCartId, orders, orderItems,
                 paymentIntents, reviews, stripe, fetch, resp>>

\* for (const cartItemId of cartItemIds) await storage.removeFromCart(...);
\* after the last one, res.status(201)
CreateOrderRemove(r) ==
  /\ req[r].pc = "removeFromCart"
  /\ cartItems' = RemoveFromCartRows(cartItems, req[r].ids[req[r].idx])
  /\ req' = IF req[r].idx = Len(req[r].ids)
            THEN [req EXCEPT ![r].pc = "r201"]
            ELSE [req EXCEPT ![r].idx = @ + 1]
  /\ UNCHANGED <<users, products, nextCartId, orders, orderItems,
                 paymentIntents, reviews, stripe, fetch, resp>>

\* a catch that takes the newest order back: its row and its lines
CreateOrderFailsAndRollsBack(r) ==
  /\ req[r].pc \in {"createOrder", "createOrderItems",
                    "updateUserCarbonSaved", "removeFromCart"}
  /\ req' = [req EXCEPT ![r].pc = "r500"]
  /\ IF req[r].orderId # 0 /\ req[r].orderId = Len(orders)
     THEN /\ orders' = SubSeq(orders, 1, Len(orders) - 1)
          /\ orderItems' = SelectSeq(orderItems,
                LAMBDA it : it.orderId # req[r].orderId)
     ELSE UNCHANGED <<orders, orderItems>>
  /\ UNCHANGED <<users, products, cartItems, nextCartId,
                 paymentIntents, reviews, stripe, fetch, resp>>

\* an awaited storage call rejects: the catch answers 500, nothing is undone
CreateOrderFails(r) ==
  /\ req[r].pc \in {"createOrder", "createOrderItems",
                    "updateUserCarbonSaved", "removeFromCart"}
  /\ req' = [req EXCEPT ![r].pc = "r500"]
  /\ UNCHANGED <<users, products, cartItems, nextCartId, orders, orderItems,
                 paymentIntents, reviews, stripe, fetch, resp>>

\* ---- specifications ------------------------------------------------------

\* cartItemIds a client can send: ids it has seen, in ascending order
CartItemIdLists == {SetToSortedSeq(S) : S \in SUBSET (1..(nextCartId - 1))}

CreateOrderSteps(r) ==
  \/ CreateOrderRow(r)
  \/ CreateOrderItems(r)
  \/ CreateOrderCarbon(r)
  \/ CreateOrderRemove(r)
  \/ CreateOrderFails(r)

\* checkout with well-formed products and quantities
Next ==
  \/ \E u \in Sellers, body \in ProductBodies : CreateProduct(u, body)
  \/ \E id \in 1..MaxProducts, updates \in ProductUpdates :
        UpdateProduct(id, updates)
  \/ \E u \in Users, id \in 1..MaxProducts, q \in Quantities :
        AddToCart(u, id, q)
  \/ \E u \in Users, id \in 1..MaxCartRows, q \in Quantities :
        UpdateCartItem(u, id, q)
  \/ \E u \in Users, id \in 1..MaxCartRows : RemoveFromCart(u, id)
  \/ \E r \in Slots, u \in Users, ids \in CartItemIdLists,
          pid \in NoIntentIds :
        CreateOrderStart(r, u, ids, pid)
  \/ \E r \in Slots : CreateOrderSteps(r)

Spec == Init /\ [][Next]_vars

\* unvalidated input: products and quantities the server accepts as sent
NextLoose ==
  \/ \E u \in Sellers, body \in LooseBodies : CreateProduct(u, body)
  \/ \E u \in Users, id \in 1..MaxProducts, q \in LooseQuantities :
        AddToCart(u, id, q)
  \/ \E u \in Users, id \in 1..MaxCartRows, q \in LooseQuantities :
        UpdateCartItem(u, id, q)
  \/ \E u \in Users, e \in Emails : UpsertUser(u, [email |-> e])
  \/ \E r \in Slots, u \in Users, ids \in CartItemIdLists,
          pid \in NoIntentIds :
        CreateOrderStart(r, u, ids, pid)
  \/ \E r \in Slots : CreateOrderSteps(r)

SpecLoose == Init /\ [][NextLoose]_vars

\* the catalogue: concurrent product fetches beside creation and edits
NextViews ==
  \/ \E u \in Sellers, body \in CatalogueBodies : CreateProduct(u, body)
  \/ \E id \in 1..MaxProducts, updates \in ProductUpdates :
        UpdateProduct(id, updates)
  \/ \E f \in Fetchers, id \in 1..MaxProducts : GetProductStart(f, id)
  \/ \E f \in Fetchers : GetProductIncrement(f)

SpecViews == Init /\ [][NextViews]_vars

\* payment: the intent bridge beside the catalogue and the cart
NextPay ==
  \/ \E u \in Users, amount \in Amounts : CreatePaymentIntent(u, amount)
  \/ \E u \in Sellers, body \in PayBodies : CreateProduct(u, body)
  \/ \E u \in Users, id \in 1..MaxProducts : AddToCart(u, id, 1)

SpecPay == InitPay /\ [][NextPay]_vars

\* the checkout page: an intent for an amount, then the order
NextPayOrder ==
  \/ \E u \in Buyers, amount \in Amounts : CreatePaymentIntent(u, amount)
  \/ \E u \in Sellers, body \in PayBodies : CreateProduct(u, body)
  \/ \E u \in Buyers, id \in 1..MaxProducts : AddToCart(u, id, 1)
  \/ \E r \in Slots, u \in Buyers, ids \in CartItemIdLists,
          pid \in PaymentIntentIds :
        CreateOrderStart(r, u, ids, pid)
  \/ \E r \in Slots : CreateOrderSteps(r)

SpecPayOrder == Init /\ [][NextPayOrder]_vars

\* reviews of the catalogue's products
NextReviews ==
  \/ \E u \in Sellers, body \in PayBodies : CreateProduct(u, body)
  \/ \E u \in Users, id \in 1..MaxProducts, body \in ReviewBodies :
        CreateReview(u, id, body)

SpecReviews == Init /\ [][NextReviews]_vars

\* the listing of a reviewed catalogue
NextListing ==
  \/ \E u \in Sellers, body \in ListingBodies : CreateProduct(u, body)
  \/ \E u \in Buyers, id \in 1..MaxProducts :
        CreateReview(u, id, [rating |-> 3])
  \/ \E params \in ListingParams : ListProducts(params)

SpecListing == Init /\ [][NextListing]_vars

\* the cart routes of two users over a small catalogue
NextCart ==
  \/ \E u \in Sellers, body \in PayBodies : CreateProduct(u, body)
  \/ \E u \in Users, id \in 1..MaxProducts, q \in Quantities :
        AddToCart(u, id, q)
  \/ \E u \in Users, id \in 1..MaxCartRows, q \in Quantities :
        UpdateCartItem(u, id, q)
  \/ \E u \in Users, id \in 1..MaxCartRows : RemoveFromCart(u, id)

SpecCart == Init /\ [][NextCart]_vars

\* two users' carts side by side: either may name any stored cart row
NextShared ==
  \/ \E u \in Sellers, body \in SharedBodies : CreateProduct(u, body)
  \/ \E u \in Users, id \in 1..MaxProducts : AddToCart(u, id, 1)
  \/ \E r \in Slots, u \in Users, ids \in CartItemIdLists,
          pid \in NoIntentIds :
        CreateOrderStart(r, u, ids, pid)
  \/ \E r \in Slots : CreateOrderSteps(r)

SpecShared == Init /\ [][NextShared]_vars

\* double submission: two create-order requests whose steps interleave
NextRace ==
  \/ \E u \in Sellers, body \in PayBodies : CreateProduct(u, body)
  \/ \E u \in Buyers, id \in 1..MaxProducts : AddToCart(u, id, 1)
  \/ \E r \in RaceSlots, u \in Buyers, ids \in CartItemIdLists,
          pid \in NoIntentIds :
        CreateOrderStart(r, u, ids, pid)
  \/ \E r \in RaceSlots : CreateOrderSteps(r)

SpecRace == InitRace /\ [][NextRace]_vars

\* the life of an order line: one buyer orders the first product, one order
\* after the other, and once a first line is stored the product is edited and
\* viewed, the cart changed and the first order's status moved
NextSnap ==
  \/ \E u \in Sellers, body \in PayBodies : CreateProduct(u, body)
  \/ \E u \in Buyers : AddToCart(u, 1, 1)
  \/ \E u \in Buyers, ids \in CartItemIdLists, pid \in NoIntentIds :
        CreateOrderStart(1, u, ids, pid)
  \/ CreateOrderSteps(1)
  \/ orderItems # <<>> /\ \E updates \in ProductUpdates :
        UpdateProduct(1, updates)
  \/ orderItems # <<>> /\ GetProductStart(1, 1)
  \/ orderItems # <<>> /\ GetProductIncrement(1)
  \/ orderItems # <<>> /\ \E u \in Buyers, id \in 1..MaxCartRows :
        UpdateCartItem(u, id, 2)
  \/ orderItems # <<>> /\ \E u \in Buyers, id \in 1..MaxCartRows :
        RemoveFromCart(u, id)
  \/ orderItems # <<>> /\ UpdateOrderStatus(1, "shipped")

SpecSnap == InitRace /\ [][NextSnap]_vars

\* ---- properties of checkout ----------------------------------------------

\* sum of price * quantity over the order_items rows of one order
RECURSIVE SubtotalsFrom(_, _)
SubtotalsFrom(orderId, i) ==
  IF i > Len(orderItems) THEN 0
  ELSE (IF orderItems[i].orderId = orderId
        THEN orderItems[i].price * orderItems[i].quantity ELSE 0)
       + SubtotalsFrom(orderId, i + 1)

HasItems(orderId) == \E i \in DOMAIN orderItems : orderItems[i].orderId = orderId

\* the request in slot r has just read the cart
Starts(r) == req[r].pc \in Finished /\ req'[r] # req[r]

\* the caller's stored cart rows named by cartItemIds
SelectedRows(userId, cartItemIds) ==
  {c \in DOMAIN cartItems :
     cartItems[c].userId = userId /\ Includes(cartItemIds, c)}

\* of those, the rows whose product is available
SelectedAvailableRows(userId, cartItemIds) ==
  {c \in SelectedRows(userId, cartItemIds) :
     products[cartItems[c].productId].available = TRUE}

RECURSIVE AmountOverRows(_)
AmountOverRows(S) ==
  IF S = {} THEN 0
  ELSE LET c == CHOOSE x \in S : TRUE
       IN products[cartItems[c].productId].price * cartItems[c].quantity
          + AmountOverRows(S \ {c})

RECURSIVE CarbonOverRows(_)
CarbonOverRows(S) ==
  IF S = {} THEN 0
  ELSE LET c == CHOOSE x \in S : TRUE
       IN products[cartItems[c].productId].carbonSaved * cartItems[c].quantity
          + CarbonOverRows(S \ {c})

C2_SumOverSelectedRows ==
  [][\A r \in DOMAIN req :
       (Starts(r) /\ req'[r].pc = "createOrder") =>
          req'[r].totalCarbonSaved =
             CarbonOverRows(SelectedRows(req'[r].user, req'[r].ids))]_vars

\* C2 amended: the totals are the sums of price * quantity and of
\* carbonSaved * quantity over the caller's selected rows whose product is
\* available; the order row stores exactly these totals; and the rows
\* (price 10.00, quantity 2) and (price 5.00, quantity 1) give 25.00.
C2_SumOverListedRows ==
  [][\A r \in DOMAIN req :
       /\ (Starts(r) /\ req'[r].pc = "createOrder") =>
             LET rows == SelectedAvailableRows(req'[r].user, req'[r].ids)
             IN /\ req'[r].totalAmount = AmountOverRows(rows)
                /\ req'[r].totalCarbonSaved = CarbonOverRows(rows)
                /\ (\E a, b \in rows :
                      /\ rows = {a, b} /\ a # b
                      /\ cartItems[a].quantity = 2
                      /\ products[cartItems[a].productId].price = 1000
                      /\ cartItems[b].quantity = 1
                      /\ products[cartItems[b].productId].price = 500)
                   => /\ req'[r].totalAmount = 2500
                      /\ req'[r].totalCarbonSaved =
                           2 * products[cartItems[CHOOSE a \in rows :
                                  cartItems[a].quantity = 2].productId].carbonSaved
                           + products[cartItems[CHOOSE b \in rows :
                                  cartItems[b].quantity = 1].productId].carbonSaved
       /\ (req[r].pc = "createOrder" /\ req'[r].pc = "createOrderItems") =>
             /\ Len(orders') = Len(orders) + 1
             /\ orders'[Len(orders')].totalAmount = req[r].totalAmount
             /\ orders'[Len(orders')].totalCarbonSaved = req[r].totalCarbonSaved
             /\ orders'[Len(orders')].buyerId = req[r].user]_vars

\* the order of the example: 2 x 10.00 and 1 x 5.00, answered 201
C2_Witness ==
  \E r \in DOMAIN req :
     /\ req[r].pc = "r201"
     /\ Len(req[r].items) = 2
     /\ \E i, j \in DOMAIN req[r].items :
          /\ req[r].items[i].price = 1000 /\ req[r].items[i].quantity = 2
          /\ req[r].items[j].price = 500 /\ req[r].items[j].quantity = 1
     /\ orders[req[r].orderId].totalAmount = 2500
     /\ orders[req[r].orderId].totalCarbonSaved = 1300

\* C3: once create-order has answered 201 for cartItemIds, the caller's cart
\* listing contains none of those ids, in every later state.
C3_OrderedRowsLeaveCart ==
  \A r \in DOMAIN req :
     req[r].pc = "r201" =>
        \A i \in DOMAIN req[r].ids :
           req[r].ids[i] \notin GetCartItems(req[r].user)

\* a 201 for two cart rows that were both the caller's
C3_Witness ==
  \E r \in DOMAIN req :
     /\ req[r].pc = "r201"
     /\ Len(req[r].ids) = 2
     /\ Len(req[r].items) = 2

\* C4: a create-order whose cartItemIds name none of the caller's stored cart
\* rows answers 400 and leaves every table as it was.
C4_DisjointIdsAre400 ==
  [][\A r \in DOMAIN req :
       (Starts(r) /\ SelectedRows(req'[r].user, req'[r].ids) = {}) =>
          /\ req'[r].pc = "r400"
          /\ UNCHANGED tables]_vars

\* a 400 for ids that name an existing row of another user
C4_Witness ==
  \E r \in DOMAIN req : \E i \in DOMAIN req[r].ids :
     /\ req[r].pc = "r400"
     /\ req[r].ids[i] \in DOMAIN cartItems
     /\ cartItems[req[r].ids[i]].userId # req[r].user
     /\ products[cartItems[req[r].ids[i]].productId].available = TRUE

\* C9 as stated: a product referenced by an order item is not available.
C9_SoldIsUnavailable ==
  \A i \in DOMAIN orderItems :
     products[orderItems[i].productId].available = FALSE

\* ---- properties of the payment bridge, the cart and the catalogue --------

\* C5 as stated: a create-payment-intent request with amount <= 0 answers 400
\* and creates no payment intent.
C5_NonPositiveAmountIs400 ==
  [][\A u \in Users, amount \in Amounts :
       (amount <= 0 /\ CreatePaymentIntent(u, amount)) =>
          /\ resp'.status = 400
          /\ paymentIntents' = paymentIntents]_vars

\* C5 amended: with amount <= 0 the request creates no payment intent and
\* answers 400 when the payment processor is configured, 503 when it is not.
C5_NonPositiveAmountIs400Or503 ==
  [][\A u \in Users, amount \in Amounts :
       (amount <= 0 /\ CreatePaymentIntent(u, amount)) =>
          /\ resp'.route = "POST /api/create-payment-intent"
          /\ resp'.status = IF stripe THEN 400 ELSE 503
          /\ paymentIntents' = paymentIntents]_vars

\* a 400 from the payment route while an intent of an earlier request exists
C5_Witness ==
  /\ resp = [route |-> "POST /api/create-payment-intent", status |-> 400]
  /\ Len(paymentIntents) = 1

\* C6 as stated: no stored cart row has a quantity below 1.
C6_QuantityAtLeastOne ==
  \A c \in DOMAIN cartItems : cartItems[c].quantity >= 1

\* C7: views of a stored product changes only when a fetch of that product
\* completes, and then by exactly 1: a step in which k fetches of the product
\* complete (k is 0 or 1, whatever else is in flight) adds k, so views never
\* decreases and n completed fetches add n.
C7_ViewsCountFetches ==
  [][\A id \in ProductIds :
       LET completed == {f \in DOMAIN fetch :
                           /\ fetch[f].pc = "incrementProductViews"
                           /\ fetch[f].id = id
                           /\ fetch'[f].pc = "idle"}
       IN products'[id].views = products[id].views + Cardinality(completed)]_vars

\* two fetches of one product overlapped: one has counted, the other has
\* read and not yet counted, and a third view was counted before
C7_Witness ==
  \E id \in ProductIds :
     /\ products[id].views = 2
     /\ FetchesOf(id) # {}

\* C8 as stated: no step lowers a user's totalCarbonSaved.
C8_CarbonNeverDecreases ==
  [][\A u \in DOMAIN users :
       users'[u].totalCarbonSaved >= users[u].totalCarbonSaved]_vars

\* C10 as stated: every stored product has price > 0.
C10_PricePositive ==
  \A id \in ProductIds : products[id].price > 0

\* ---- properties of the checkout steps ------------------------------------

\* order_items rows stored for one order
ItemsOfOrder(orderId) ==
  {i \in DOMAIN orderItems : orderItems[i].orderId = orderId}

\* C11 as stated: in every reachable state every order a GET /api/orders
\* lists carries order items, and an order whose request is still known has
\* as many order_items rows as the request computed for it.
C11_OrderNeverWithoutItems ==
  /\ \A u \in DOMAIN users : \A o \in DOMAIN GetOrders(u) :
        GetOrders(u)[o] # {}
  /\ \A r \in DOMAIN req :
        req[r].orderId \in DOMAIN orders =>
           Cardinality(ItemsOfOrder(req[r].orderId)) = Len(req[r].items)

\* C12: every step leaves each stored order_items row in place with the
\* price, quantity and carbonSaved it was created with: product edits, view
\* increments, cart adds, updates and removes, further order placements and
\* order status updates change none of them.
C12_OrderItemsAreSnapshots ==
  [][\A i \in DOMAIN orderItems :
       /\ i \in DOMAIN orderItems'
       /\ orderItems'[i].orderId = orderItems[i].orderId
       /\ orderItems'[i].price = orderItems[i].price
       /\ orderItems'[i].quantity = orderItems[i].quantity
       /\ orderItems'[i].carbonSaved = orderItems[i].carbonSaved]_vars

\* a line of the first order after its product was re-priced and viewed, its
\* order shipped, a cart row set to quantity 2 and a second order placed
C12_Witness ==
  \E i \in DOMAIN orderItems :
     /\ orderItems[i].orderId = 1
     /\ orderItems[i].price = 1000
     /\ products[orderItems[i].productId].price = 1500
     /\ products[orderItems[i].productId].views > 0
     /\ orders[1].status = "shipped"
     /\ Len(orders) = 2
     /\ \E j \in DOMAIN orderItems : orderItems[j].orderId = 2
     /\ \E c \in DOMAIN cartItems : cartItems[c].quantity = 2

\* ---- properties of product creation --------------------------------------

\* C13: a POST /api/products that answers 201 stores one new product with
\* views = 0, whatever views the payload carried, and with available = true
\* when the payload does not set available.
C13_NewProductDefaults ==
  [][\A u \in Sellers, body \in CatalogueBodies :
       (CreateProduct(u, body) /\ resp'.status = 201) =>
          /\ Len(products') = Len(products) + 1
          /\ products'[Len(products')].views = 0
          /\ "available" \notin DOMAIN body =>
                products'[Len(products')].available = TRUE
          /\ "available" \in DOMAIN body =>
                products'[Len(products')].available = body.available]_vars

\* the last request answered 201; one stored product took the default flag,
\* the other was sent with available = false, and neither has been viewed
C13_Witness ==
  /\ resp = [route |-> "POST /api/products", status |-> 201]
  /\ Len(products) = 2
  /\ products[1].available = TRUE /\ products[1].views = 0
  /\ products[2].available = FALSE /\ products[2].views = 0

\* C16: a POST /api/products that answers 201 stores the caller's session
\* user id as sellerId, and two payloads of one caller that differ only in a
\* sellerId field store the same row.
C16_SellerIsSessionUser ==
  [][\A u \in Sellers, body \in CatalogueBodies :
       (CreateProduct(u, body) /\ resp'.status = 201) =>
          /\ products'[Len(products')].sellerId = u
          /\ \A other \in CatalogueBodies :
                (/\ DOMAIN other \ {"sellerId"} = DOMAIN body \ {"sellerId"}
                 /\ \A f \in DOMAIN body \ {"sellerId"} : other[f] = body[f])
                => CreateProduct(u, other)]_vars

\* two products stored, the last request answered 201, and every stored
\* sellerId is the one user who posted, never the "u1" a payload named
C16_Witness ==
  /\ resp = [route |-> "POST /api/products", status |-> 201]
  /\ Len(products) = 2
  /\ \A id \in ProductIds : products[id].sellerId \in Sellers
  /\ \E body \in CatalogueBodies :
        "sellerId" \in DOMAIN body /\ body.sellerId \notin Sellers

\* ---- properties of reviews -----------------------------------------------

\* C14 as stated: every stored review has a rating from 1 to 5, and a review
\* request whose rating is below 1 or above 5 answers 400.
C14_RatingWithinOneToFive ==
  \A i \in DOMAIN reviews : reviews[i].rating \in 1..5

\* ---- properties of the product page ---------------------------------------

\* C15: a GET /api/products/:id for an id with no stored product answers 404
\* and changes no product; for a stored product the request answers 200 and
\* its two steps together add 1 to that product's views and change nothing
\* else of any product.
C15_MissingIs404AndOnlyOwnCounter ==
  [][\A f \in DOMAIN fetch :
       /\ \A id \in 1..MaxProducts :
             GetProductStart(f, id) =>
                /\ products' = products
                /\ IF id \in ProductIds
                   THEN fetch'[f] = [pc |-> "incrementProductViews", id |-> id]
                   ELSE /\ resp' = [route |-> "GET /api/products/:id",
                                    status |-> 404]
                        /\ fetch' = fetch
       /\ GetProductIncrement(f) =>
             /\ resp' = [route |-> "GET /api/products/:id", status |-> 200]
             /\ Len(products') = Len(products)
             /\ \A id \in ProductIds :
                   products'[id] =
                     IF id = fetch[f].id
                     THEN [products[id] EXCEPT !.views = @ + 1]
                     ELSE products[id]]_vars

\* a 404 for the id of a product not yet stored, after a fetch of the stored
\* product was counted
C15_Witness ==
  /\ resp = [route |-> "GET /api/products/:id", status |-> 404]
  /\ Len(products) = 1
  /\ products[1].views = 1
  /\ \A f \in DOMAIN fetch : fetch[f].pc = "idle"

\* ---- properties of double submission -------------------------------------

\* both slots hold requests of one user for the same cartItemIds that were
\* both past their cart read at once
SameSubmission(a, b) ==
  /\ a # b
  /\ req[a].user = req[b].user
  /\ req[a].ids = req[b].ids
  /\ req[a].paymentIntentId = req[b].paymentIntentId
  /\ req[a].items # <<>> /\ req[b].items # <<>>

\* C17: nothing stops a second create-order for the same cartItemIds that
\* read the cart before the first cleared it.  Its steps are taken whatever
\* the other request has done: it inserts an order of its own, deleting a
\* cart row that is already gone changes nothing and moves on to the next id
\* or to the 201, its counter update adds its total although its twin's was
\* added already, and when both requests have answered 201 there are two
\* distinct orders of the buyer.
C17_DoubleSubmitMakesTwoOrders ==
  [][\A a \in DOMAIN req :
       /\ (CreateOrderRemove(a)
            /\ req[a].ids[req[a].idx] \notin DOMAIN cartItems) =>
             /\ cartItems' = cartItems
             /\ req'[a].pc = IF req[a].idx = Len(req[a].ids)
                             THEN "r201" ELSE "removeFromCart"
       /\ \A b \in DOMAIN req :
             (SameSubmission(a, b)' /\ req'[a].pc = "r201"
                                    /\ req'[b].pc = "r201") =>
                /\ req'[a].orderId # req'[b].orderId
                /\ {req'[a].orderId, req'[b].orderId} \subseteq DOMAIN orders'
                /\ orders'[req'[a].orderId].buyerId = req'[a].user
                /\ orders'[req'[b].orderId].buyerId = req'[a].user
       /\ \A b \in DOMAIN req :
             (SameSubmission(a, b) /\ CreateOrderCarbon(a)
                /\ req[b].pc \in {"removeFromCart", "r201"}) =>
                users'[req[a].user].totalCarbonSaved =
                   users[req[a].user].totalCarbonSaved
                   + orders[req[a].orderId].totalCarbonSaved]_vars

\* the double-click: both requests answered 201 for the same single cart row,
\* two orders of 10.00 exist and the buyer's counter holds 3.00 twice
C17_Witness ==
  /\ SameSubmission(1, 2)
  /\ req[1].pc = "r201" /\ req[2].pc = "r201"
  /\ Len(req[1].ids) = 1
  /\ Len(orders) = 2
  /\ orders[1].totalAmount = 1000 /\ orders[2].totalAmount = 1000
  /\ users[req[1].user].totalCarbonSaved = 600
  /\ req[1].ids[1] \notin DOMAIN cartItems

\* ---- properties of a failing checkout ------------------------------------

\* C18: when a storage step of create-order fails after the order row was
\* inserted, the request answers 500 and no table is touched: the order row
\* stays, its cart rows stay as far as they were not yet deleted; and no
\* later step removes or rewrites an order row.
C18_FailureKeepsOrder ==
  [][/\ \A r \in DOMAIN req :
          (CreateOrderFails(r) /\ req[r].pc # "createOrder") =>
             /\ req'[r].pc = "r500"
             /\ req[r].orderId \in DOMAIN orders'
             /\ UNCHANGED tables
     /\ \A o \in DOMAIN orders :
          /\ o \in DOMAIN orders'
          /\ orders'[o].buyerId = orders[o].buyerId
          /\ orders'[o].totalAmount = orders[o].totalAmount
          /\ orders'[o].totalCarbonSaved = orders[o].totalCarbonSaved]_vars

\* a 500 between the two cart deletions: the order and its two lines exist,
\* the first ordered row is gone and the second is still in the cart
C18_Witness ==
  \E r \in DOMAIN req :
     /\ req[r].pc = "r500"
     /\ req[r].orderId \in DOMAIN orders
     /\ Cardinality(ItemsOfOrder(req[r].orderId)) = 2
     /\ Len(req[r].ids) = 2
     /\ req[r].ids[1] \notin DOMAIN cartItems
     /\ req[r].ids[2] \in GetCartItems(req[r].user)

\* ---- properties of payment against order ---------------------------------

\* C19: create-order never looks at the payment intents.  Whether it goes on
\* to insert an order depends only on the caller's selected available cart
\* rows, its total is the one computed from them, and the order row stores
\* that total beside the paymentIntentId as sent: whether an intent with
\* that id exists, and for what amount, changes nothing.
C19_OrderIgnoresPaymentIntent ==
  [][\A r \in DOMAIN req :
       /\ Starts(r) =>
             LET rows == SelectedAvailableRows(req'[r].user, req'[r].ids)
             IN /\ req'[r].pc = IF rows = {} THEN "r400" ELSE "createOrder"
                /\ rows # {} => req'[r].totalAmount = AmountOverRows(rows)
                /\ paymentIntents' = paymentIntents
       /\ CreateOrderRow(r) =>
             /\ orders'[Len(orders')].paymentIntentId = req[r].paymentIntentId
             /\ orders'[Len(orders')].totalAmount = req[r].totalAmount
             /\ paymentIntents' = paymentIntents]_vars

\* an order of 20.00 answered 201 that names an intent made for 10.00, when
\* the cart held one row; a second intent id was never made
C19_Witness ==
  \E r \in DOMAIN req :
     /\ req[r].pc = "r201"
     /\ orders[req[r].orderId].paymentIntentId = 1
     /\ Len(paymentIntents) = 1
     /\ paymentIntents[1].amount = 1000
     /\ orders[req[r].orderId].totalAmount = 2000

\* an order answered 201 that names an intent nobody made
C19_OrderWithoutIntent ==
  \E r \in DOMAIN req :
     /\ req[r].pc = "r201"
     /\ orders[req[r].orderId].paymentIntentId \notin DOMAIN paymentIntents

\* ---- properties of the carbon counter ------------------------------------

\* C20: the counter update of a create-order request adds to the buyer's
\* totalCarbonSaved exactly the totalCarbonSaved stored on the order the
\* request inserted and leaves every other user's row as it was; no other
\* step of a create-order request changes the users table, so a request that
\* answers 201 has added its order's total once.
C20_CounterGrowsByOrderTotal ==
  [][\A r \in DOMAIN req :
       /\ CreateOrderCarbon(r) =>
             /\ req[r].orderId \in DOMAIN orders
             /\ orders[req[r].orderId].buyerId = req[r].user
             /\ users'[req[r].user].totalCarbonSaved =
                   users[req[r].user].totalCarbonSaved
                   + orders[req[r].orderId].totalCarbonSaved
             /\ \A v \in DOMAIN users \ {req[r].user} : users'[v] = users[v]
       /\ (req'[r] # req[r] /\ req[r].pc # "updateUserCarbonSaved") =>
             users' = users
       /\ req'[r].pc = "r201" =>
             req[r].pc \in {"r201", "removeFromCart"}
       /\ req'[r].pc = "removeFromCart" =>
             req[r].pc \in {"removeFromCart", "updateUserCarbonSaved"}]_vars

\* a second order of the buyer answered 201 after a first one: each added
\* its 3.00, the seller's counter is still 0
C20_Witness ==
  \E r \in DOMAIN req :
     /\ req[r].pc = "r201"
     /\ req[r].orderId = 2
     /\ orders[1].totalCarbonSaved = 300
     /\ orders[2].totalCarbonSaved = 300
     /\ users[req[r].user].totalCarbonSaved = 600
     /\ \A v \in DOMAIN users \ {req[r].user} : users[v].totalCarbonSaved = 0
     /\ \A q \in DOMAIN req \ {r} : req[q].pc = "idle"

\* ---- properties of what an order holds -----------------------------------

C22_AddToCartNeverMerges ==
  [][\A u \in Users, id \in 1..MaxProducts, q \in Quantities :
       (AddToCart(u, id, q) /\ id \in ProductIds) =>
          /\ DOMAIN cartItems' \ DOMAIN cartItems # {}
          /\ Cardinality(DOMAIN cartItems') = Cardinality(DOMAIN cartItems) + 1
          /\ \A c \in DOMAIN cartItems' \ DOMAIN cartItems :
                cartItems'[c] = [userId |-> u, productId |-> id, quantity |-> q]
          /\ \A c \in DOMAIN cartItems :
                c \in DOMAIN cartItems' /\ cartItems'[c] = cartItems[c]]_vars

\* two rows of one user for one product, with quantities 1 and 2
C22_Witness ==
  \E a, b \in DOMAIN cartItems :
     /\ a < b
     /\ cartItems[a].userId = cartItems[b].userId
     /\ cartItems[a].productId = cartItems[b].productId
     /\ cartItems[a].quantity = 1
     /\ cartItems[b].quantity = 2

\* ---- properties of what create-order selects and clears -------------------

\* C23: the order items a request computes come only from cart rows of the
\* caller whose ids are in cartItemIds, and no step of the request removes or
\* changes a cart row whose id is not in cartItemIds.
C23_UnselectedRowsUntouched ==
  [][\A r \in DOMAIN req :
       /\ (Starts(r) /\ req'[r].pc = "createOrder") =>
             \A i \in DOMAIN req'[r].items :
                req'[r].items[i].cartItemId
                   \in SelectedRows(req'[r].user, req'[r].ids)
       /\ req'[r] # req[r] =>
             \A c \in DOMAIN cartItems :
                ~Includes(req'[r].ids, c) =>
                   /\ c \in DOMAIN cartItems'
                   /\ cartItems'[c] = cartItems[c]]_vars

\* a 201 for one of the caller's two cart rows: the ordered row is gone, the
\* other is still in the caller's cart
C23_Witness ==
  \E r \in DOMAIN req : \E c \in DOMAIN cartItems :
     /\ req[r].pc = "r201"
     /\ Len(req[r].ids) = 1
     /\ req[r].ids[1] \notin DOMAIN cartItems
     /\ c # req[r].ids[1]
     /\ cartItems[c].userId = req[r].user
     /\ c \in GetCartItems(req[r].user)

\* ---- properties of the product listing -----------------------------------

\* C24 as stated: every product a GET /api/products returns is available and
\* passes every filter the query supplies: its category, its search text in
\* the title, featured when asked for.
C24_ListingPassesEveryFilter ==
  [][\A params \in ListingParams :
       ListProducts(params) =>
          \A k \in DOMAIN resp'.body :
             LET product == products[resp'.body[k].id]
             IN /\ product.available = TRUE
                /\ params.category # "" => product.category = params.category
                /\ params.search # <<>> => ILike(product.title, params.search)
                /\ params.featured => product.featured = TRUE]_vars

\* the products that pass the query's where clause, newest first
MatchingNewestFirst(params) ==
  LET asc == SetToSortedSeq({id \in DOMAIN products :
                               ProductsWhere(params, products[id])})
  IN [i \in 1..Len(asc) |-> asc[Len(asc) + 1 - i]]

\* C30 as stated: the page at offset 0, L, 2L, ... of a listing with limit L
\* holds the next L products that match (fewer only when fewer remain), so
\* the pages together return every matching product once, and every product
\* returned carries all of its reviews.
C30_PagesAreOverProducts ==
  [][\A params \in ListingParams :
       (ListProducts(params) /\ params.offset % params.limit = 0) =>
          /\ [k \in DOMAIN resp'.body |-> resp'.body[k].id]
                = LimitOffset(MatchingNewestFirst(params),
                              params.limit, params.offset)
          /\ \A k \in DOMAIN resp'.body :
                resp'.body[k].reviews = ReviewIdsOf(resp'.body[k].id)]_vars

\* ---- properties of cart ownership ----------------------------------------

\* C25 as stated: every cart row a create-order request deletes is one of
\* the rows it put in its order (the caller's, listed, product available).
C25_DeletesOnlyOrderedRows ==
  [][\A r \in DOMAIN req :
       CreateOrderRemove(r) =>
          \A c \in DOMAIN cartItems \ DOMAIN cartItems' :
             \E i \in DOMAIN req[r].items : req[r].items[i].cartItemId = c]_vars

\* C26 as stated: a PUT or DELETE /api/cart/:id naming a cart row of another
\* user leaves that row in place with its quantity.
C26_OnlyOwnCartRows ==
  [][\A u \in Users, id \in DOMAIN cartItems :
       (/\ cartItems[id].userId # u
        /\ \/ \E q \in Quantities : UpdateCartItem(u, id, q)
           \/ RemoveFromCart(u, id)) =>
          /\ id \in DOMAIN cartItems'
          /\ cartItems'[id] = cartItems[id]]_vars

\* C27: an order row carries the caller as buyerId; the lines of a request
\* come only from cart rows of the caller, whatever other rows cartItemIds
\* names; and GET /api/orders lists for a user exactly the orders bought by
\* that user.
C27_OrdersBelongToCaller ==
  [][/\ \A r \in DOMAIN req :
          /\ (Starts(r) /\ req'[r].pc = "createOrder") =>
                \A i \in DOMAIN req'[r].items :
                   cartItems[req'[r].items[i].cartItemId].userId = req'[r].user
          /\ CreateOrderRow(r) =>
                /\ Len(orders') = Len(orders) + 1
                /\ orders'[Len(orders')].buyerId = req[r].user
     /\ \A u \in Users :
          DOMAIN GetOrders(u)' =
             {o \in DOMAIN orders' : orders'[o].buyerId = u}]_vars

\* an order of one line stands for a request whose cartItemIds also named a
\* cart row of the other user; the caller's listing shows it, the other
\* user's listing is empty
C27_Witness ==
  \E r \in DOMAIN req : \E c \in DOMAIN cartItems :
     /\ req[r].pc = "createOrderItems"
     /\ Includes(req[r].ids, c)
     /\ cartItems[c].userId # req[r].user
     /\ Len(req[r].items) = 1
     /\ orders[req[r].orderId].buyerId = req[r].user
     /\ DOMAIN GetOrders(req[r].user) = {req[r].orderId}
     /\ DOMAIN GetOrders(cartItems[c].userId) = {}

\* ---- properties of the impact figures ------------------------------------

\* ImpactMetrics: totalCarbonSaved reduced over the orders of the list
RECURSIVE SumOfOrderCarbon(_)
SumOfOrderCarbon(ids) ==
  IF ids = {} THEN 0
  ELSE LET o == CHOOSE x \in ids : TRUE
       IN orders[o].totalCarbonSaved + SumOfOrderCarbon(ids \ {o})

ImpactCarbonSaved(userId) == SumOfOrderCarbon(DOMAIN GetOrders(userId))

\* C28 as stated: whenever no create-order request is in flight, each
\* user's totalCarbonSaved equals the sum of totalCarbonSaved over the
\* orders that user bought, the figure the impact metrics show.
C28_CounterAgreesWithOrders ==
  (\A r \in DOMAIN req : req[r].pc \in Finished) =>
     \A u \in DOMAIN users :
        users[u].totalCarbonSaved = ImpactCarbonSaved(u)

\* ---- properties of resubmission ------------------------------------------

\* C29: once a create-order for a list of cart item ids has answered 201, a
\* later create-order of the same user with the same list answers 400 and
\* changes no table, and a request answered 400 takes no further step: no
\* second order, no order items, no addition to the counter.
C29_ResubmissionIs400 ==
  [][\A r \in DOMAIN req :
       /\ (/\ Starts(r)
           /\ \E a \in DOMAIN req :
                 /\ req[a].pc = "r201"
                 /\ req[a].user = req'[r].user
                 /\ req[a].ids = req'[r].ids) =>
             /\ req'[r].pc = "r400"
             /\ UNCHANGED tables
       /\ req[r].pc = "r400" => ~CreateOrderSteps(r)]_vars

\* one request has answered 201 and the same list sent again by the same
\* user has answered 400: one order, one order item, the counter grown once
C29_Witness ==
  /\ req[1].user = req[2].user
  /\ req[1].ids = req[2].ids
  /\ req[1].pc = "r201" /\ req[2].pc = "r400"
  /\ Len(req[1].ids) = 1
  /\ Len(orders) = 1
  /\ Len(orderItems) = 1
  /\ users[req[1].user].totalCarbonSaved = orders[1].totalCarbonSaved
  /\ orders[1].totalCarbonSaved > 0

====
